---- MODULE Spec2Model ----
(***************************************************************************)
(* The local persistence layer of the semester / subject / task manager    *)
(* (utils/storage): two values kept in AsyncStorage, the semester-name     *)
(* index and the root document, and the CRUD helpers that read, change and *)
(* write them back.                                                        *)
(*                                                                         *)
(* An AsyncStorage item is <<>> when getItem returns null, <<t>> when it   *)
(* holds the JSON text t, and <<t, DAMAGED>> when it holds bytes that no   *)
(* longer parse.  JavaScript objects are functions whose DOMAIN is the set *)
(* of own keys, so a missing property is a key outside the DOMAIN; arrays  *)
(* are sequences (position i of the code is i + 1).  A JSON text is the    *)
(* members (name to text) of an object, the sequence of element texts      *)
(* for an array, <<s>> for the string s and "true" or "false" for a        *)
(* boolean.  AsyncStorage also holds, under REJECTS and GET_REJECTS, the   *)
(* sets of keys whose setItem and getItem currently reject (the device's   *)
(* store failing).  The three screens that call the layer keep what they   *)
(* display in ui.                                                          *)
(***************************************************************************)
EXTENDS Integers, Sequences, FiniteSets, TLC

VARIABLES AsyncStorage, call, raised, pre, ops, inflight, ui

vars == <<AsyncStorage, call, raised, pre, ops, inflight, ui>>

(* ------------------------------ bounds -------------------------------- *)

MaxOps == 3
MaxIndex == 2

(* ------------------------------ values -------------------------------- *)

STORAGE_KEY == "@semester_task_manager"
SEMESTERS_KEY == "@semesters_list"
REJECTS == "setItem rejects"
GET_REJECTS == "getItem rejects"
DAMAGED == "damaged"
SetItemRejected == "setItem rejected"
DefaultColorTag == "#6C63FF"
SemesterExists == "A semester with this name already exists"
SubjectExists == "A subject with this name already exists"
TypeError == "TypeError"
NoError == "none"

SemesterNames == {"S1", "S2"}
SubjectNames == {"Math", "Phys"}
ColorTags == {"#111111", "#222222"}
Tasks == {[title |-> "HW1", dueDate |-> "2025-01-10", completed |-> FALSE],
          [title |-> "HW2", dueDate |-> "2025-01-11", completed |-> TRUE]}
TaskIndexes == (0 - MaxIndex)..MaxIndex

(* --------------------------- object helpers --------------------------- *)

EmptyObject == [k \in {} |-> 0]

Has(obj, k) == k \in DOMAIN obj

Put(obj, k, v) == [x \in DOMAIN obj \cup {k} |-> IF x = k THEN v ELSE obj[x]]

Delete(obj, k) == [x \in DOMAIN obj \ {k} |-> obj[x]]

Get(obj, k) == IF Has(obj, k) THEN obj[k] ELSE EmptyObject

includes(arr, x) == \E i \in 1..Len(arr) : arr[i] = x

SelectNot(arr, x) == SelectSeq(arr, LAMBDA s : s # x)

Replace(arr, old, new) == [i \in 1..Len(arr) |-> IF arr[i] = old THEN new ELSE arr[i]]

(* tasks.splice(taskIndex) without the count: everything from the start
   position to the end is removed. *)
splice_ToEnd(arr, start) ==
    LET len == Len(arr)
        rel == IF start < 0
                 THEN (IF len + start > 0 THEN len + start ELSE 0)
                 ELSE (IF start < len THEN start ELSE len)
    IN  [i \in 1..rel |-> arr[i]]

(* tasks.splice(taskIndex, 1): a negative start counts from the end and is
   clamped to 0, a start past the end is clamped to the length. *)
splice(arr, start) ==
    LET len == Len(arr)
        rel == IF start < 0
                 THEN (IF len + start > 0 THEN len + start ELSE 0)
                 ELSE (IF start < len THEN start ELSE len)
    IN  IF rel < len
          THEN [i \in 1..(len - 1) |-> IF i <= rel THEN arr[i] ELSE arr[i + 1]]
          ELSE arr

(* tasks[taskIndex] is an object (truthy) exactly at the valid positions. *)
At(arr, i) == i >= 0 /\ i < Len(arr)

Outcome(st, err) == [st |-> st, raised |-> err]

(* ------------------------------ storage ------------------------------- *)

(* JSON.stringify, level by level of the document: a string is quoted, a
   boolean becomes its literal, an array the texts of its elements, an
   object the texts of its members. *)
Quoted(s) == <<s>>

Literal_Negated(b) == IF b THEN "false" ELSE "true"

Literal(b) == IF b THEN "true" ELSE "false"

stringifyTask(task) ==
    [k \in DOMAIN task |-> IF k = "completed" THEN Literal(task[k]) ELSE Quoted(task[k])]

stringifyTasks(tasks) == [i \in 1..Len(tasks) |-> stringifyTask(tasks[i])]

stringifySubject(record) ==
    [k \in DOMAIN record |->
        IF k = "tasks" THEN stringifyTasks(record[k]) ELSE Quoted(record[k])]

stringifySemester(semesterData) ==
    [x \in DOMAIN semesterData |-> stringifySubject(semesterData[x])]

(* JSON.stringify(data) of saveData. *)
JSONstringify(data) == [s \in DOMAIN data |-> stringifySemester(data[s])]

(* JSON.stringify(semesters) of saveSemesters. *)
JSONstringifyArray(semesters) == [i \in 1..Len(semesters) |-> Quoted(semesters[i])]

(* JSON.parse, level by level: a string from between its quotes, a boolean
   from its literal, an array from its elements, an object from its members. *)
Unquoted(text) == text[1]

Boolean(text) == text = "true"

parseTask(text) ==
    [k \in DOMAIN text |-> IF k = "completed" THEN Boolean(text[k]) ELSE Unquoted(text[k])]

parseTasks(text) == [i \in 1..Len(text) |-> parseTask(text[i])]

parseSubject(text) ==
    [k \in DOMAIN text |-> IF k = "tasks" THEN parseTasks(text[k]) ELSE Unquoted(text[k])]

parseSemester(text) == [x \in DOMAIN text |-> parseSubject(text[x])]

(* JSON.parse(jsonValue) of loadData. *)
JSONparse(jsonValue) == [s \in DOMAIN jsonValue |-> parseSemester(jsonValue[s])]

(* JSON.parse(jsonValue) of loadSemesters. *)
JSONparseArray(jsonValue) == [i \in 1..Len(jsonValue) |-> Unquoted(jsonValue[i])]

(* The load that reads what is still readable of damaged bytes. *)
loadData_ParsesDamaged(st) ==
    IF STORAGE_KEY \in st[GET_REJECTS] THEN EmptyObject
    ELSE IF Len(st[STORAGE_KEY]) = 0 THEN EmptyObject
    ELSE JSONparse(st[STORAGE_KEY][1])

(* try { getItem; JSON.parse } catch { return {} }: a rejected getItem and a
   SyntaxError of JSON.parse both end in the catch. *)
loadData(st) ==
    IF STORAGE_KEY \in st[GET_REJECTS] THEN EmptyObject
    ELSE IF Len(st[STORAGE_KEY]) = 0 THEN EmptyObject
    ELSE IF Len(st[STORAGE_KEY]) > 1 THEN EmptyObject
    ELSE JSONparse(st[STORAGE_KEY][1])

loadSemesters(st) ==
    IF SEMESTERS_KEY \in st[GET_REJECTS] THEN <<>>
    ELSE IF Len(st[SEMESTERS_KEY]) = 0 THEN <<>>
    ELSE IF Len(st[SEMESTERS_KEY]) > 1 THEN <<>>
    ELSE JSONparseArray(st[SEMESTERS_KEY][1])

setItem(st, key, value) ==
    IF key \in st[REJECTS]
      THEN Outcome(st, SetItemRejected)
      ELSE Outcome([st EXCEPT ![key] = <<value>>], NoError)

(* try { setItem } catch (e) { console.error }: the rejection is logged and
   swallowed, the caller gets the storage as setItem left it. *)
saveSemesters(st, semesters) == setItem(st, SEMESTERS_KEY, JSONstringifyArray(semesters)).st

(* The save that removes the item when the write is rejected. *)
saveData_ClearOnFail(st, data) ==
    IF STORAGE_KEY \in st[REJECTS]
      THEN [st EXCEPT ![STORAGE_KEY] = <<>>]
      ELSE setItem(st, STORAGE_KEY, JSONstringify(data)).st

saveData(st, data) == setItem(st, STORAGE_KEY, JSONstringify(data)).st

getSemesterData(st, semester) == Get(loadData(st), semester)

(* The save that writes a document holding the one semester only. *)
saveSemesterData_OnlySemester(st, semester, semesterData) ==
    saveData(st, Put(EmptyObject, semester, semesterData))

saveSemesterData(st, semester, semesterData) ==
    saveData(st, Put(loadData(st), semester, semesterData))

(* ----------------------------- semesters ------------------------------ *)

(* The add that puts the new name in front (unshift for push). *)
addSemester_Unshift(st, semesterName) ==
    LET semesters == loadSemesters(st)
    IN  IF ~includes(semesters, semesterName)
          THEN Outcome(saveSemesters(st, <<semesterName>> \o semesters), NoError)
          ELSE Outcome(st, NoError)

addSemester(st, semesterName) ==
    LET semesters == loadSemesters(st)
    IN  IF ~includes(semesters, semesterName)
          THEN Outcome(saveSemesters(st, Append(semesters, semesterName)), NoError)
          ELSE Outcome(st, NoError)

(* The delete that only removes the name from the index. *)
deleteSemester_IndexOnly(st, semesterName) ==
    Outcome(saveSemesters(st, SelectNot(loadSemesters(st), semesterName)), NoError)

deleteSemester(st, semesterName) ==
    LET st1 == saveSemesters(st, SelectNot(loadSemesters(st), semesterName))
    IN  Outcome(saveData(st1, Delete(loadData(st1), semesterName)), NoError)

(* The rename without the duplicate check. *)
updateSemester_NoCheck(st, oldName, newName) ==
    IF oldName = newName
      THEN Outcome(st, NoError)
      ELSE LET st1  == saveSemesters(st, Replace(loadSemesters(st), oldName, newName))
               data == loadData(st1)
           IN  IF Has(data, oldName)
                 THEN Outcome(saveData(st1, Delete(Put(data, newName, data[oldName]), oldName)), NoError)
                 ELSE Outcome(st1, NoError)

updateSemester(st, oldName, newName) ==
    IF oldName = newName
      THEN Outcome(st, NoError)
      ELSE LET semesters == loadSemesters(st)
           IN  IF includes(semesters, newName)
                 THEN Outcome(st, SemesterExists)
                 ELSE LET st1  == saveSemesters(st, Replace(semesters, oldName, newName))
                          data == loadData(st1)
                      IN  IF Has(data, oldName)
                            THEN Outcome(saveData(st1, Delete(Put(data, newName, data[oldName]), oldName)), NoError)
                            ELSE Outcome(st1, NoError)

(* ------------------------------ subjects ------------------------------ *)

NewSubject(colorTag) == [tasks |-> <<>>, colorTag |-> colorTag]

(* { ...record, colorTag }: the own keys of record (none when record is
   undefined) and colorTag. *)
Spread(record, colorTag) == Put(record, "colorTag", colorTag)

(* The add without the existence check. *)
addSubject_Overwrite(st, semester, subjectName, colorTag) ==
    LET semesterData == getSemesterData(st, semester)
    IN  Outcome(saveSemesterData(st, semester,
                    Put(semesterData, subjectName, NewSubject(colorTag))), NoError)

addSubject(st, semester, subjectName, colorTag) ==
    LET semesterData == getSemesterData(st, semester)
    IN  IF ~Has(semesterData, subjectName)
          THEN Outcome(saveSemesterData(st, semester,
                           Put(semesterData, subjectName, NewSubject(colorTag))), NoError)
          ELSE Outcome(st, NoError)

deleteSubject(st, semester, subjectName) ==
    LET semesterData == getSemesterData(st, semester)
    IN  Outcome(saveSemesterData(st, semester, Delete(semesterData, subjectName)), NoError)

(* The rename without the duplicate check. *)
updateSubject_NoCheck(st, semester, oldSubjectName, newSubjectName, colorTag) ==
    LET semesterData == getSemesterData(st, semester)
    IN  IF oldSubjectName # newSubjectName
          THEN Outcome(saveSemesterData(st, semester,
                   Delete(Put(semesterData, newSubjectName,
                              Spread(Get(semesterData, oldSubjectName), colorTag)),
                          oldSubjectName)), NoError)
          ELSE IF ~Has(semesterData, oldSubjectName)
                 THEN Outcome(st, TypeError)
                 ELSE Outcome(saveSemesterData(st, semester,
                          Put(semesterData, oldSubjectName,
                              Put(semesterData[oldSubjectName], "colorTag", colorTag))), NoError)

(* The rename that builds a fresh record under the new name instead of
   copying the old one. *)
updateSubject_FreshRecord(st, semester, oldSubjectName, newSubjectName, colorTag) ==
    LET semesterData == getSemesterData(st, semester)
    IN  IF oldSubjectName # newSubjectName
          THEN IF Has(semesterData, newSubjectName)
                 THEN Outcome(st, SubjectExists)
                 ELSE Outcome(saveSemesterData(st, semester,
                          Delete(Put(semesterData, newSubjectName, NewSubject(colorTag)),
                                 oldSubjectName)), NoError)
          ELSE IF ~Has(semesterData, oldSubjectName)
                 THEN Outcome(st, TypeError)
                 ELSE Outcome(saveSemesterData(st, semester,
                          Put(semesterData, oldSubjectName,
                              Put(semesterData[oldSubjectName], "colorTag", colorTag))), NoError)

(* The rename without the branch for equal names: the record is copied to
   the new key and the old key, the same one, is then deleted. *)
updateSubject_NoSelfBranch(st, semester, oldSubjectName, newSubjectName, colorTag) ==
    LET semesterData == getSemesterData(st, semester)
    IN  IF oldSubjectName # newSubjectName /\ Has(semesterData, newSubjectName)
          THEN Outcome(st, SubjectExists)
          ELSE Outcome(saveSemesterData(st, semester,
                   Delete(Put(semesterData, newSubjectName,
                              Spread(Get(semesterData, oldSubjectName), colorTag)),
                          oldSubjectName)), NoError)

updateSubject(st, semester, oldSubjectName, newSubjectName, colorTag) ==
    LET semesterData == getSemesterData(st, semester)
    IN  IF oldSubjectName # newSubjectName
          THEN IF Has(semesterData, newSubjectName)
                 THEN Outcome(st, SubjectExists)
                 ELSE Outcome(saveSemesterData(st, semester,
                          Delete(Put(semesterData, newSubjectName,
                                     Spread(Get(semesterData, oldSubjectName), colorTag)),
                                 oldSubjectName)), NoError)
          ELSE IF ~Has(semesterData, oldSubjectName)
                 THEN Outcome(st, TypeError)
                 ELSE Outcome(saveSemesterData(st, semester,
                          Put(semesterData, oldSubjectName,
                              Put(semesterData[oldSubjectName], "colorTag", colorTag))), NoError)

(* ------------------------------- tasks -------------------------------- *)

(* The add that puts the task in front (unshift for push). *)
addTask_Unshift(st, semester, subject, task) ==
    LET semesterData == getSemesterData(st, semester)
        withSubject  == IF ~Has(semesterData, subject)
                          THEN Put(semesterData, subject, NewSubject(DefaultColorTag))
                          ELSE semesterData
        record       == withSubject[subject]
    IN  IF ~Has(record, "tasks")
          THEN Outcome(st, TypeError)
          ELSE Outcome(saveSemesterData(st, semester,
                   Put(withSubject, subject,
                       Put(record, "tasks", <<task>> \o record.tasks))), NoError)

addTask(st, semester, subject, task) ==
    LET semesterData == getSemesterData(st, semester)
        withSubject  == IF ~Has(semesterData, subject)
                          THEN Put(semesterData, subject, NewSubject(DefaultColorTag))
                          ELSE semesterData
        record       == withSubject[subject]
    IN  IF ~Has(record, "tasks")
          THEN Outcome(st, TypeError)
          ELSE Outcome(saveSemesterData(st, semester,
                   Put(withSubject, subject,
                       Put(record, "tasks", Append(record.tasks, task)))), NoError)

updateTask(st, semester, subject, taskIndex, updatedTask) ==
    LET semesterData == getSemesterData(st, semester)
    IN  IF ~Has(semesterData, subject)
          THEN Outcome(st, NoError)
          ELSE LET record == semesterData[subject]
               IN  IF ~Has(record, "tasks")
                     THEN Outcome(st, TypeError)
                     ELSE IF At(record.tasks, taskIndex)
                            THEN Outcome(saveSemesterData(st, semester,
                                     Put(semesterData, subject,
                                         Put(record, "tasks",
                                             [record.tasks EXCEPT ![taskIndex + 1] = updatedTask]))),
                                     NoError)
                            ELSE Outcome(st, NoError)

deleteTask(st, semester, subject, taskIndex) ==
    LET semesterData == getSemesterData(st, semester)
    IN  IF ~Has(semesterData, subject)
          THEN Outcome(st, NoError)
          ELSE LET record == semesterData[subject]
               IN  IF ~Has(record, "tasks")
                     THEN Outcome(st, TypeError)
                     ELSE Outcome(saveSemesterData(st, semester,
                              Put(semesterData, subject,
                                  Put(record, "tasks", splice(record.tasks, taskIndex)))),
                              NoError)

toggleTaskCompletion(st, semester, subject, taskIndex) ==
    LET semesterData == getSemesterData(st, semester)
    IN  IF ~Has(semesterData, subject)
          THEN Outcome(st, NoError)
          ELSE LET record == semesterData[subject]
               IN  IF ~Has(record, "tasks")
                     THEN Outcome(st, TypeError)
                     ELSE IF At(record.tasks, taskIndex)
                            THEN Outcome(saveSemesterData(st, semester,
                                     Put(semesterData, subject,
                                         Put(record, "tasks",
                                             [record.tasks EXCEPT
                                                ![taskIndex + 1].completed = ~@]))),
                                     NoError)
                            ELSE Outcome(st, NoError)

(* ------------------------- the calls as actions ----------------------- *)

NoTask == [title |-> "", dueDate |-> "", completed |-> FALSE]

Call(op, semester, subject, newName, colorTag, taskIndex, task) ==
    [op |-> op, semester |-> semester, subject |-> subject, newName |-> newName,
     colorTag |-> colorTag, taskIndex |-> taskIndex, task |-> task]

(* One awaited call: the storage it leaves, what it raised, and the storage
   it started from. *)
Do(c, out) ==
    /\ ops < MaxOps
    /\ AsyncStorage' = out.st
    /\ raised' = out.raised
    /\ call' = c
    /\ pre' = AsyncStorage
    /\ ops' = ops + 1
    /\ UNCHANGED <<inflight, ui>>

CallAddSemester ==
    \E n \in SemesterNames :
        Do(Call("addSemester", n, "", "", "", 0, NoTask), addSemester(AsyncStorage, n))

CallDeleteSemester ==
    \E n \in SemesterNames :
        Do(Call("deleteSemester", n, "", "", "", 0, NoTask), deleteSemester(AsyncStorage, n))

CallUpdateSemester ==
    \E o \in SemesterNames, n \in SemesterNames :
        Do(Call("updateSemester", o, "", n, "", 0, NoTask), updateSemester(AsyncStorage, o, n))

CallAddSubject ==
    \E s \in SemesterNames, x \in SubjectNames, c \in ColorTags :
        Do(Call("addSubject", s, x, "", c, 0, NoTask), addSubject(AsyncStorage, s, x, c))

CallDeleteSubject ==
    \E s \in SemesterNames, x \in SubjectNames :
        Do(Call("deleteSubject", s, x, "", "", 0, NoTask), deleteSubject(AsyncStorage, s, x))

CallUpdateSubject ==
    \E s \in SemesterNames, o \in SubjectNames, n \in SubjectNames, c \in ColorTags :
        Do(Call("updateSubject", s, o, n, c, 0, NoTask), updateSubject(AsyncStorage, s, o, n, c))

CallAddTask ==
    \E s \in SemesterNames, x \in SubjectNames, t \in Tasks :
        Do(Call("addTask", s, x, "", "", 0, t), addTask(AsyncStorage, s, x, t))

CallUpdateTask ==
    \E s \in SemesterNames, x \in SubjectNames, i \in TaskIndexes, t \in Tasks :
        Do(Call("updateTask", s, x, "", "", i, t), updateTask(AsyncStorage, s, x, i, t))

CallDeleteTask ==
    \E s \in SemesterNames, x \in SubjectNames, i \in TaskIndexes :
        Do(Call("deleteTask", s, x, "", "", i, NoTask), deleteTask(AsyncStorage, s, x, i))

CallToggleTaskCompletion ==
    \E s \in SemesterNames, x \in SubjectNames, i \in TaskIndexes :
        Do(Call("toggleTaskCompletion", s, x, "", "", i, NoTask),
           toggleTaskCompletion(AsyncStorage, s, x, i))

(* ------------------------ the screens' state ------------------------ *)

(* useState of SemesterScreen, SubjectScreen and TaskScreen as the
   components mount; null is "". *)
SemesterScreenState ==
    [semesters |-> <<>>, dialogVisible |-> FALSE, editingSemester |-> "",
     semesterName |-> "", snackbarVisible |-> FALSE, snackbarMessage |-> ""]

SubjectScreenState ==
    [subjects |-> EmptyObject, dialogVisible |-> FALSE, editingSubject |-> "",
     subjectName |-> "", colorTag |-> DefaultColorTag, snackbarVisible |-> FALSE,
     snackbarMessage |-> ""]

TaskScreenState == [tasks |-> <<>>]

(* The navigation stack with the initial route on top: which screen has the
   focus, the route parameters, the instance of each screen that is mounted
   (0: none; an instance is numbered by the pushes made so far), and the
   state of each mounted screen. *)
AppStarted ==
    [focused |-> "Semesters", semester |-> "", subject |-> "", pushes |-> 1,
     mounted |-> [screen \in {"Semesters", "Subjects", "Tasks"} |->
                     IF screen = "Semesters" THEN 1 ELSE 0],
     Semesters |-> SemesterScreenState,
     Subjects |-> SubjectScreenState,
     Tasks |-> TaskScreenState]

NothingStored ==
    [k \in {STORAGE_KEY, SEMESTERS_KEY, REJECTS, GET_REJECTS} |->
        IF k \in {REJECTS, GET_REJECTS} THEN {} ELSE <<>>]

Init ==
    /\ AsyncStorage = NothingStored
    /\ call = Call("init", "", "", "", "", 0, NoTask)
    /\ raised = NoError
    /\ pre = NothingStored
    /\ inflight = <<>>
    /\ ops = 0
    /\ ui = AppStarted

Next ==
    \/ CallAddSemester
    \/ CallDeleteSemester
    \/ CallUpdateSemester
    \/ CallAddSubject
    \/ CallDeleteSubject
    \/ CallUpdateSubject
    \/ CallAddTask
    \/ CallUpdateTask
    \/ CallDeleteTask
    \/ CallToggleTaskCompletion

Spec == Init /\ [][Next]_vars

(* ------------------- semester calls that are not awaited -------------- *)

(* A semester call in flight: where it is suspended (the await it is at) and
   the values it has read so far.  inflight lists the calls in flight in the
   order they were made; a call leaves the list when it returns or throws. *)
Suspended(op, semesterName, newName, pc, semesters, data) ==
    [op |-> op, semester |-> semesterName, newName |-> newName, pc |-> pc,
     semesters |-> semesters, data |-> data]

Without(calls, i) == [j \in 1..(Len(calls) - 1) |-> IF j < i THEN calls[j] ELSE calls[j + 1]]

(* The test made on the list just read: does the call go on to write it? *)
IndexProceeds_NoCheck(c) == TRUE

IndexProceeds(c) ==
    CASE c.op = "addSemester" -> ~includes(c.semesters, c.semester)
      [] c.op = "deleteSemester" -> TRUE
      [] c.op = "updateSemester" -> ~includes(c.semesters, c.newName)

(* The list the call writes, computed from the list it read. *)
IndexWrite(c) ==
    CASE c.op = "addSemester" -> Append(c.semesters, c.semester)
      [] c.op = "deleteSemester" -> SelectNot(c.semesters, c.semester)
      [] c.op = "updateSemester" -> Replace(c.semesters, c.semester, c.newName)

(* The document the call writes, computed from the document it read. *)
DataWrite(c) ==
    CASE c.op = "deleteSemester" -> Delete(c.data, c.semester)
      [] c.op = "updateSemester" ->
           Delete(Put(c.data, c.newName, c.data[c.semester]), c.semester)

(* The call is made: it runs up to its first await, the read of the index
   (updateSemester with equal names returns at once). *)
StartSemesterCall ==
    \E op \in {"addSemester", "deleteSemester", "updateSemester"},
       n \in SemesterNames, m \in SemesterNames :
        /\ ops < MaxOps
        /\ op # "updateSemester" => m = n
        /\ inflight' = IF op = "updateSemester" /\ m = n
                          THEN inflight
                          ELSE Append(inflight,
                                   Suspended(op, n, m, "loadSemesters", <<>>, EmptyObject))
        /\ ops' = ops + 1
        /\ UNCHANGED <<AsyncStorage, call, raised, pre, ui>>

(* await loadSemesters() completes. *)
LoadSemestersStep ==
    \E i \in 1..Len(inflight) :
        /\ inflight[i].pc = "loadSemesters"
        /\ LET c == [inflight[i] EXCEPT !.semesters = loadSemesters(AsyncStorage)]
           IN  inflight' = IF IndexProceeds(c)
                             THEN [inflight EXCEPT ![i] = [c EXCEPT !.pc = "saveSemesters"]]
                             ELSE Without(inflight, i)
        /\ UNCHANGED <<AsyncStorage, call, raised, pre, ops, ui>>

(* await saveSemesters(...) completes. *)
SaveSemestersStep ==
    \E i \in 1..Len(inflight) :
        /\ inflight[i].pc = "saveSemesters"
        /\ AsyncStorage' = saveSemesters(AsyncStorage, IndexWrite(inflight[i]))
        /\ inflight' = IF inflight[i].op = "addSemester"
                          THEN Without(inflight, i)
                          ELSE [inflight EXCEPT ![i].pc = "loadData"]
        /\ UNCHANGED <<call, raised, pre, ops, ui>>

(* await loadData() completes. *)
LoadDataStep ==
    \E i \in 1..Len(inflight) :
        /\ inflight[i].pc = "loadData"
        /\ LET c == [inflight[i] EXCEPT !.data = loadData(AsyncStorage)]
           IN  inflight' = IF c.op = "deleteSemester" \/ Has(c.data, c.semester)
                             THEN [inflight EXCEPT ![i] = [c EXCEPT !.pc = "saveData"]]
                             ELSE Without(inflight, i)
        /\ UNCHANGED <<AsyncStorage, call, raised, pre, ops, ui>>

(* await saveData(data) completes. *)
SaveDataStep ==
    \E i \in 1..Len(inflight) :
        /\ inflight[i].pc = "saveData"
        /\ AsyncStorage' = saveData(AsyncStorage, DataWrite(inflight[i]))
        /\ inflight' = Without(inflight, i)
        /\ UNCHANGED <<call, raised, pre, ops, ui>>

(* The semester calls in every interleaving of their awaits; awaited
   addSubject calls give the document records to move and delete. *)
NextInterleaved ==
    \/ StartSemesterCall
    \/ LoadSemestersStep
    \/ SaveSemestersStep
    \/ LoadDataStep
    \/ SaveDataStep
    \/ CallAddSubject

SpecInterleaved == Init /\ [][NextInterleaved]_vars

(* ---------------------- the store with failing writes ----------------- *)

(* The device's store starts or stops rejecting writes of some keys. *)
StorageFault ==
    \E f \in SUBSET {STORAGE_KEY, SEMESTERS_KEY} :
        /\ f # AsyncStorage[REJECTS]
        /\ Do(Call("fault", "", "", "", "", 0, NoTask),
              Outcome([AsyncStorage EXCEPT ![REJECTS] = f], NoError))

NextFail ==
    \/ Next
    \/ StorageFault

SpecFail == Init /\ [][NextFail]_vars

(* --------------------- what the last call saw and left ---------------- *)

preIndex == loadSemesters(pre)
postIndex == loadSemesters(AsyncStorage)
preData == loadData(pre)
postData == loadData(AsyncStorage)
preSemester == getSemesterData(pre, call.semester)
postSemester == getSemesterData(AsyncStorage, call.semester)

HasTasks(semesterData, subject) ==
    Has(semesterData, subject) /\ Has(semesterData[subject], "tasks")

(* ------------------------------- claims ------------------------------- *)

(* C1: renameSemester never silently overwrites: whenever the root document
   already holds a record under the new name and new # old, the call fails
   and the record under the new name is unchanged. *)
C1_RenameSemesterNeverOverwrites ==
    (/\ call.op = "updateSemester"
     /\ call.newName # call.semester
     /\ Has(preData, call.newName))
    => (/\ raised # NoError
        /\ Has(postData, call.newName)
        /\ postData[call.newName] = preData[call.newName])

(* C2: renameSemester(a, b) with b already in the index and b # a fails with
   the duplicate-name error and writes nothing: the index and the whole
   document are as before the call. *)
C2_DuplicateSemesterRenameWritesNothing ==
    (/\ call.op = "updateSemester"
     /\ call.newName # call.semester
     /\ includes(preIndex, call.newName))
    => (/\ raised = SemesterExists
        /\ AsyncStorage = pre)

C2_Witness ==
    /\ call.op = "updateSemester"
    /\ call.newName # call.semester
    /\ includes(preIndex, call.newName)
    /\ Has(preData, call.semester)
    /\ DOMAIN preData[call.semester] # {}
    /\ raised = SemesterExists

(* C3: a successful renameSemester(old, new) (old listed, new # old, new not
   listed) puts new at old's position in the index, makes the record of new
   the record old had before the call, and leaves old with the empty
   mapping. *)
C3_RenameSemesterMovesSubtree ==
    (/\ call.op = "updateSemester"
     /\ call.newName # call.semester
     /\ includes(preIndex, call.semester)
     /\ ~includes(preIndex, call.newName))
    => (/\ raised = NoError
        /\ Len(postIndex) = Len(preIndex)
        /\ \A i \in 1..Len(preIndex) :
              postIndex[i] = IF preIndex[i] = call.semester THEN call.newName
                                                            ELSE preIndex[i]
        /\ getSemesterData(AsyncStorage, call.newName) = getSemesterData(pre, call.semester)
        /\ getSemesterData(AsyncStorage, call.semester) = EmptyObject)

(* C4: addTask always succeeds: it raises nothing and afterwards the task is
   the last element of the subject's task sequence. *)
C4_AddTaskAlwaysSucceeds ==
    call.op = "addTask"
    => (/\ raised = NoError
        /\ HasTasks(postSemester, call.subject)
        /\ Len(postSemester[call.subject].tasks) > 0
        /\ postSemester[call.subject].tasks[Len(postSemester[call.subject].tasks)] = call.task)

(* C5: every subject record of the persisted root document has both a
   colorTag and a tasks sequence. *)
C5_SubjectHasColorAndTasks ==
    \A s \in DOMAIN postData : \A x \in DOMAIN postData[s] :
        {"colorTag", "tasks"} \subseteq DOMAIN postData[s][x]

(* C6: deleteTask with an index outside 0 <= index < length raises nothing
   and leaves the subject's task sequence as it was (stated for a subject
   that has a task sequence). *)
C6_DeleteTaskOutOfRangeIsNoOp ==
    (/\ call.op = "deleteTask"
     /\ HasTasks(preSemester, call.subject)
     /\ ~At(preSemester[call.subject].tasks, call.taskIndex))
    => (/\ raised = NoError
        /\ HasTasks(postSemester, call.subject)
        /\ postSemester[call.subject].tasks = preSemester[call.subject].tasks)

(* C7: a rename raises exactly when new # old and new already exists:
   renameSubject iff new is a subject of the semester, renameSemester iff new
   is in the index. *)
C7_RenamesRaiseExactlyOnDuplicate ==
    /\ call.op = "updateSubject"
         => (raised # NoError
               <=> (call.newName # call.subject /\ Has(preSemester, call.newName)))
    /\ call.op = "updateSemester"
         => (raised # NoError
               <=> (call.newName # call.semester /\ includes(preIndex, call.newName)))

(* C8: renameSubject(s, old, new, c) with new # old and new already a subject
   of s fails with the duplicate-name error and writes nothing. *)
C8_DuplicateSubjectRenameWritesNothing ==
    (/\ call.op = "updateSubject"
     /\ call.newName # call.subject
     /\ Has(preSemester, call.newName))
    => (/\ raised = SubjectExists
        /\ AsyncStorage = pre)

C8_Witness ==
    /\ call.op = "updateSubject"
    /\ call.newName # call.subject
    /\ Has(preSemester, call.newName)
    /\ HasTasks(preSemester, call.subject)
    /\ Len(preSemester[call.subject].tasks) > 0
    /\ preSemester[call.subject].colorTag # call.colorTag
    /\ raised = SubjectExists

(* C9: a successful renameSubject(s, old, new, c) with old present, new # old
   and new absent leaves a subject new with old's task sequence and colorTag
   c, no subject old, and as many subjects as before. *)
C9_RenameSubjectMovesTasks ==
    (/\ call.op = "updateSubject"
     /\ call.newName # call.subject
     /\ Has(preSemester, call.subject)
     /\ ~Has(preSemester, call.newName))
    => (/\ raised = NoError
        /\ Has(postSemester, call.newName)
        /\ Has(postSemester[call.newName], "tasks") = Has(preSemester[call.subject], "tasks")
        /\ Has(preSemester[call.subject], "tasks")
             => postSemester[call.newName].tasks = preSemester[call.subject].tasks
        /\ Has(postSemester[call.newName], "colorTag")
        /\ postSemester[call.newName].colorTag = call.colorTag
        /\ ~Has(postSemester, call.subject)
        /\ Cardinality(DOMAIN postSemester) = Cardinality(DOMAIN preSemester))

C9_Witness ==
    /\ call.op = "updateSubject"
    /\ call.newName # call.subject
    /\ HasTasks(preSemester, call.subject)
    /\ Len(preSemester[call.subject].tasks) = 2
    /\ preSemester[call.subject].tasks[1] # preSemester[call.subject].tasks[2]
    /\ ~Has(preSemester, call.newName)
    /\ HasTasks(postSemester, call.newName)
    /\ raised = NoError

(* C10: renameSubject(s, x, x, c) of an existing subject x raises nothing and
   changes only x's colorTag: x keeps its task sequence, no subject is added
   or removed, and every other subject, every other semester and the index
   are as before. *)
C10_RenameToSelfChangesOnlyColor ==
    (/\ call.op = "updateSubject"
     /\ call.newName = call.subject
     /\ Has(preSemester, call.subject))
    => (/\ raised = NoError
        /\ DOMAIN postSemester = DOMAIN preSemester
        /\ DOMAIN postSemester[call.subject] = DOMAIN preSemester[call.subject] \cup {"colorTag"}
        /\ postSemester[call.subject].colorTag = call.colorTag
        /\ Has(preSemester[call.subject], "tasks")
             => postSemester[call.subject].tasks = preSemester[call.subject].tasks
        /\ \A x \in DOMAIN preSemester \ {call.subject} : postSemester[x] = preSemester[x]
        /\ DOMAIN postData = DOMAIN preData
        /\ \A s \in DOMAIN preData \ {call.semester} : postData[s] = preData[s]
        /\ AsyncStorage[SEMESTERS_KEY] = pre[SEMESTERS_KEY])

C10_Witness ==
    /\ call.op = "updateSubject"
    /\ call.newName = call.subject
    /\ HasTasks(preSemester, call.subject)
    /\ Len(preSemester[call.subject].tasks) > 0
    /\ preSemester[call.subject].colorTag # call.colorTag
    /\ Cardinality(DOMAIN preSemester) = 2
    /\ raised = NoError

Count(arr, x) == Cardinality({i \in 1..Len(arr) : arr[i] = x})

(* C12: addSemester appends: a name that is not in the index is added at
   the end, the entries already there keep their positions, and afterwards
   the name occurs exactly once; after addSemester(a) and addSemester(b),
   a # b, both are listed once, a before b when a was added first. *)
C12_AddSemesterAppends ==
    call.op = "addSemester"
    => (/\ raised = NoError
        /\ Count(postIndex, call.semester) = 1
        /\ \A i \in 1..Len(preIndex) : postIndex[i] = preIndex[i]
        /\ Len(postIndex) = Len(preIndex) + (IF includes(preIndex, call.semester) THEN 0 ELSE 1)
        /\ postIndex[Len(postIndex)] = call.semester
             \/ includes(preIndex, call.semester))

C12_Witness ==
    /\ call.op = "addSemester"
    /\ Len(preIndex) = 1
    /\ preIndex[1] # call.semester
    /\ postIndex = <<preIndex[1], call.semester>>

(* C13: after deleteSemester(name), name is not in the index and has no
   record, so getSemesterData(name) is the empty mapping; addSemester never
   touches the root document, so a later re-add resurrects nothing; and when
   name was in neither the index nor the document, the index and the
   document read the same as before. *)
C13_DeleteSemesterRemovesSubtree ==
    /\ call.op = "deleteSemester"
         => (/\ raised = NoError
             /\ ~includes(postIndex, call.semester)
             /\ ~Has(postData, call.semester)
             /\ getSemesterData(AsyncStorage, call.semester) = EmptyObject
             /\ (~includes(preIndex, call.semester) /\ ~Has(preData, call.semester))
                  => (postIndex = preIndex /\ postData = preData))
    /\ call.op = "addSemester"
         => AsyncStorage[STORAGE_KEY] = pre[STORAGE_KEY]

C13_Witness ==
    /\ call.op = "deleteSemester"
    /\ includes(preIndex, call.semester)
    /\ Has(preData, call.semester)
    /\ DOMAIN preData[call.semester] # {}
    /\ ~Has(postData, call.semester)

(* C14: addSubject inserts a subject with the given colorTag and an empty
   task sequence exactly when the name is not yet a subject of the semester
   (the semester record is created if absent); when the name exists the call
   writes nothing. *)
C14_AddSubjectInsertsIffAbsent ==
    call.op = "addSubject"
    => (/\ raised = NoError
        /\ Has(preSemester, call.subject) => AsyncStorage = pre
        /\ ~Has(preSemester, call.subject)
             => (/\ DOMAIN postSemester = DOMAIN preSemester \cup {call.subject}
                 /\ DOMAIN postSemester[call.subject] = {"tasks", "colorTag"}
                 /\ postSemester[call.subject].tasks = <<>>
                 /\ postSemester[call.subject].colorTag = call.colorTag
                 /\ \A x \in DOMAIN preSemester : postSemester[x] = preSemester[x]
                 /\ DOMAIN postData = DOMAIN preData \cup {call.semester}
                 /\ \A s \in DOMAIN preData \ {call.semester} : postData[s] = preData[s]))

C14_Witness ==
    /\ call.op = "addSubject"
    /\ ~Has(preSemester, call.subject)
    /\ DOMAIN preSemester # {}
    /\ Has(postSemester, call.subject)

(* C15: deleteSubject removes the subject record with all of its tasks and
   leaves every other subject unchanged; when the subject, or the whole
   semester, is absent the root document has the same parsed structure as
   before: no key is added or removed. *)
C15_DeleteSubjectFrame ==
    call.op = "deleteSubject"
    => (/\ raised = NoError
        /\ ~Has(postSemester, call.subject)
        /\ \A x \in DOMAIN preSemester \ {call.subject} :
              Has(postSemester, x) /\ postSemester[x] = preSemester[x]
        /\ ~Has(preSemester, call.subject) => postData = preData)

(* C16: addTask appends: on a subject with task sequence T the sequence
   becomes T followed by the task, the colorTag is kept; on a subject that
   does not exist the subject is created with the default color and the
   single task. *)
C16_AddTaskAppends ==
    call.op = "addTask"
    => (/\ HasTasks(preSemester, call.subject)
             => (/\ raised = NoError
                 /\ HasTasks(postSemester, call.subject)
                 /\ postSemester[call.subject].tasks
                      = Append(preSemester[call.subject].tasks, call.task)
                 /\ postSemester[call.subject].colorTag = preSemester[call.subject].colorTag)
        /\ ~Has(preSemester, call.subject)
             => (/\ raised = NoError
                 /\ Has(postSemester, call.subject)
                 /\ postSemester[call.subject]
                      = [tasks |-> <<call.task>>, colorTag |-> DefaultColorTag]))

C16_Witness ==
    /\ call.op = "addTask"
    /\ HasTasks(preSemester, call.subject)
    /\ Len(preSemester[call.subject].tasks) = 1
    /\ preSemester[call.subject].tasks[1] # call.task
    /\ preSemester[call.subject].colorTag # DefaultColorTag
    /\ Len(postSemester[call.subject].tasks) = 2

(* C17: deleteTask(s, x, i) with 0 <= i < length removes exactly the task at
   position i: the tasks before i stay, every later task moves down by one,
   and the subject stays, with its colorTag, even when its last task goes. *)
C17_DeleteTaskRemovesOne ==
    (/\ call.op = "deleteTask"
     /\ HasTasks(preSemester, call.subject)
     /\ At(preSemester[call.subject].tasks, call.taskIndex))
    => (/\ raised = NoError
        /\ HasTasks(postSemester, call.subject)
        /\ Len(postSemester[call.subject].tasks) = Len(preSemester[call.subject].tasks) - 1
        /\ \A j \in 1..Len(postSemester[call.subject].tasks) :
              postSemester[call.subject].tasks[j]
                = IF j <= call.taskIndex THEN preSemester[call.subject].tasks[j]
                                         ELSE preSemester[call.subject].tasks[j + 1]
        /\ postSemester[call.subject].colorTag = preSemester[call.subject].colorTag)

C17_Witness ==
    /\ call.op = "deleteTask"
    /\ HasTasks(preSemester, call.subject)
    /\ Len(preSemester[call.subject].tasks) = 2
    /\ preSemester[call.subject].tasks[1] # preSemester[call.subject].tasks[2]
    /\ call.taskIndex = 0
    /\ postSemester[call.subject].tasks = <<preSemester[call.subject].tasks[2]>>

(* C18: toggleTaskCompletion on an existing task flips only that task's
   completed flag; when the subject is absent or the index is no valid
   position it raises nothing and leaves the persisted document unchanged. *)
C18_ToggleFlipsOrNoOp ==
    call.op = "toggleTaskCompletion"
    => (/\ raised = NoError
        /\ IF HasTasks(preSemester, call.subject)
                /\ At(preSemester[call.subject].tasks, call.taskIndex)
             THEN postData = Put(preData, call.semester,
                      Put(preSemester, call.subject,
                          [preSemester[call.subject] EXCEPT
                             !.tasks[call.taskIndex + 1].completed = ~@]))
             ELSE postData = preData)

(* C19: updateTask with 0 <= i < length replaces the task at position i and
   leaves the length and every other position unchanged; when the subject
   is absent or the index is out of bounds it raises nothing and leaves the
   persisted document unchanged. *)
C19_UpdateTaskReplacesOrNoOp ==
    call.op = "updateTask"
    => (/\ raised = NoError
        /\ IF HasTasks(preSemester, call.subject)
                /\ At(preSemester[call.subject].tasks, call.taskIndex)
             THEN postData = Put(preData, call.semester,
                      Put(preSemester, call.subject,
                          [preSemester[call.subject] EXCEPT
                             !.tasks[call.taskIndex + 1] = call.task]))
             ELSE postData = preData)

(* The last call, made on the storage st. *)
Replay(st) ==
    CASE call.op = "addSemester" -> addSemester(st, call.semester)
      [] call.op = "deleteSemester" -> deleteSemester(st, call.semester)
      [] call.op = "updateSemester" -> updateSemester(st, call.semester, call.newName)
      [] call.op = "addSubject" -> addSubject(st, call.semester, call.subject, call.colorTag)
      [] call.op = "deleteSubject" -> deleteSubject(st, call.semester, call.subject)
      [] call.op = "updateSubject" ->
           updateSubject(st, call.semester, call.subject, call.newName, call.colorTag)
      [] call.op = "addTask" -> addTask(st, call.semester, call.subject, call.task)
      [] call.op = "updateTask" ->
           updateTask(st, call.semester, call.subject, call.taskIndex, call.task)
      [] call.op = "deleteTask" -> deleteTask(st, call.semester, call.subject, call.taskIndex)
      [] call.op = "toggleTaskCompletion" ->
           toggleTaskCompletion(st, call.semester, call.subject, call.taskIndex)
      [] OTHER -> Outcome(st, NoError)

NoFaults(st) == [st EXCEPT ![REJECTS] = {}]

StoreCalls ==
    {"addSemester", "deleteSemester", "updateSemester", "addSubject", "deleteSubject",
     "updateSubject", "addTask", "updateTask", "deleteTask", "toggleTaskCompletion"}

(* C20: saveData fails soft: a store call made while writes of the root
   document are rejected leaves the persisted document exactly as it was,
   raises nothing the same call would not raise with a working store, and
   returns normally whenever it got as far as a write. *)
C20_SaveDataFailsSoft ==
    (call.op \in StoreCalls /\ STORAGE_KEY \in pre[REJECTS])
    => (/\ AsyncStorage[STORAGE_KEY] = pre[STORAGE_KEY]
        /\ loadData(AsyncStorage) = loadData(pre)
        /\ raised = Replay(NoFaults(pre)).raised
        /\ Replay(NoFaults(pre)).st # NoFaults(pre) => raised = NoError)

C20_Witness ==
    /\ call.op = "addTask"
    /\ STORAGE_KEY \in pre[REJECTS]
    /\ DOMAIN loadData(pre) # {}
    /\ Replay(NoFaults(pre)).st[STORAGE_KEY] # pre[STORAGE_KEY]
    /\ AsyncStorage = pre
    /\ raised = NoError

(* C11: the semester-name index never lists a name twice, in every
   interleaving of addSemester, renameSemester and deleteSemester calls; and
   an addSemester that read an index already containing its name writes
   nothing. *)
C11_IndexHasNoDuplicates ==
    /\ \A n \in SemesterNames : Count(postIndex, n) <= 1
    /\ \A i \in 1..Len(inflight) :
          (inflight[i].op = "addSemester" /\ inflight[i].pc = "saveSemesters")
            => ~includes(inflight[i].semesters, inflight[i].semester)

C11_Witness ==
    \E i \in 1..Len(inflight) :
        /\ inflight[i].op = "addSemester"
        /\ inflight[i].pc = "saveSemesters"
        /\ includes(postIndex, inflight[i].semester)
        /\ Len(postIndex) = 2

(* ------------------------- frame of the calls ------------------------- *)

SubjectAndTaskCalls ==
    {"addSubject", "deleteSubject", "updateSubject", "addTask", "updateTask", "deleteTask",
     "toggleTaskCompletion"}

(* C28: an awaited subject or task call on (s, x) leaves the index, every
   other semester's record and every subject of s other than x (and the
   rename target) unchanged; addSemester changes only the index, never the
   root document, so a listed semester may have no record, and
   getSemesterData of it is the empty mapping. *)
C28_FrameOfCalls ==
    /\ call.op \in SubjectAndTaskCalls
         => /\ AsyncStorage[SEMESTERS_KEY] = pre[SEMESTERS_KEY]
            /\ DOMAIN postData \ {call.semester} = DOMAIN preData \ {call.semester}
            /\ \A s \in DOMAIN preData \ {call.semester} : postData[s] = preData[s]
            /\ DOMAIN postSemester \ {call.subject, call.newName}
                 = DOMAIN preSemester \ {call.subject, call.newName}
            /\ \A x \in DOMAIN preSemester \ {call.subject, call.newName} :
                  postSemester[x] = preSemester[x]
    /\ call.op = "addSemester"
         => /\ AsyncStorage[STORAGE_KEY] = pre[STORAGE_KEY]
            /\ \A n \in SemesterNames \ {call.semester} :
                  includes(postIndex, n) = includes(preIndex, n)
    /\ \A n \in SemesterNames :
          (includes(postIndex, n) /\ ~Has(postData, n))
            => getSemesterData(AsyncStorage, n) = EmptyObject

C28_Witness ==
    /\ call.op = "addTask"
    /\ raised = NoError
    /\ postSemester # preSemester
    /\ \E s \in DOMAIN preData : s # call.semester
    /\ \E x \in DOMAIN preSemester : x # call.subject

(* --------------- semester calls on a store that may fail -------------- *)

(* The device's store starts or stops rejecting writes of some keys,
   between two calls. *)
StoreStartsOrStopsRejecting ==
    \E f \in SUBSET {STORAGE_KEY, SEMESTERS_KEY} :
        /\ f # AsyncStorage[REJECTS]
        /\ AsyncStorage' = [AsyncStorage EXCEPT ![REJECTS] = f]
        /\ UNCHANGED <<call, raised, pre, ops, inflight, ui>>

(* Awaited semester calls, with addSubject calls to give the semesters
   records, on a store whose writes may be rejected. *)
NextSemesterFail ==
    \/ CallAddSemester
    \/ CallDeleteSemester
    \/ CallUpdateSemester
    \/ CallAddSubject
    \/ StoreStartsOrStopsRejecting

SpecSemesterFail == Init /\ [][NextSemesterFail]_vars

(* C29: renameSemester and deleteSemester keep the index and the document in
   step even when a storage write fails: after a rename of a listed semester
   with a record to a free name, either both the index entry and the record
   have moved or neither has; after a delete the name is gone from both or
   still present in both. *)
C29_SemesterWritesStayInStep ==
    /\ (/\ call.op = "updateSemester"
        /\ call.newName # call.semester
        /\ includes(preIndex, call.semester) /\ Has(preData, call.semester)
        /\ ~includes(preIndex, call.newName) /\ ~Has(preData, call.newName))
         => \/ /\ includes(postIndex, call.newName) /\ ~includes(postIndex, call.semester)
               /\ Has(postData, call.newName) /\ ~Has(postData, call.semester)
            \/ /\ postIndex = preIndex
               /\ postData = preData
    /\ (/\ call.op = "deleteSemester"
        /\ includes(preIndex, call.semester) /\ Has(preData, call.semester))
         => (includes(postIndex, call.semester) <=> Has(postData, call.semester))

(* ------------------- reading, and a store that fails to read ---------- *)

CallLoadData ==
    Do(Call("loadData", "", "", "", "", 0, NoTask), Outcome(AsyncStorage, NoError))

CallLoadSemesters ==
    Do(Call("loadSemesters", "", "", "", "", 0, NoTask), Outcome(AsyncStorage, NoError))

(* await saveData(await loadData()) *)
CallSaveLoadedData ==
    Do(Call("saveData(loadData())", "", "", "", "", 0, NoTask),
       Outcome(saveData(AsyncStorage, loadData(AsyncStorage)), NoError))

(* The bytes of a stored item get damaged: JSON.parse of them throws. *)
ItemDamaged ==
    \E key \in {STORAGE_KEY, SEMESTERS_KEY} :
        /\ Len(AsyncStorage[key]) = 1
        /\ Do(Call("damage", "", "", "", "", 0, NoTask),
              Outcome([AsyncStorage EXCEPT ![key] = <<@[1], DAMAGED>>], NoError))

(* The device's store starts or stops rejecting reads of some keys. *)
GetItemFault ==
    \E f \in SUBSET {STORAGE_KEY, SEMESTERS_KEY} :
        /\ f # AsyncStorage[GET_REJECTS]
        /\ Do(Call("fault", "", "", "", "", 0, NoTask),
              Outcome([AsyncStorage EXCEPT ![GET_REJECTS] = f], NoError))

(* Loads and saves of whole values, with the calls that build a document
   and an index to load, on a store whose items and reads may fail. *)
NextRead ==
    \/ CallAddSemester
    \/ CallAddSubject
    \/ CallUpdateSubject
    \/ CallAddTask
    \/ CallLoadData
    \/ CallLoadSemesters
    \/ CallSaveLoadedData
    \/ ItemDamaged
    \/ GetItemFault

SpecRead == Init /\ [][NextRead]_vars

(* C21: loadData never raises: it returns the empty mapping when no value is
   persisted, when the read fails, or when the persisted bytes do not parse,
   and the parsed document otherwise; loadSemesters likewise returns the
   empty sequence in those cases; reading never changes the persisted
   state. *)
C21_LoadsFailSoft ==
    /\ call.op \in {"loadData", "loadSemesters"}
         => (raised = NoError /\ AsyncStorage = pre)
    /\ loadData(AsyncStorage) =
          IF \/ AsyncStorage[STORAGE_KEY] = <<>>
             \/ STORAGE_KEY \in AsyncStorage[GET_REJECTS]
             \/ DAMAGED \in {AsyncStorage[STORAGE_KEY][i] : i \in 2..Len(AsyncStorage[STORAGE_KEY])}
            THEN EmptyObject
            ELSE JSONparse(AsyncStorage[STORAGE_KEY][1])
    /\ loadSemesters(AsyncStorage) =
          IF \/ AsyncStorage[SEMESTERS_KEY] = <<>>
             \/ SEMESTERS_KEY \in AsyncStorage[GET_REJECTS]
             \/ DAMAGED \in {AsyncStorage[SEMESTERS_KEY][i] : i \in 2..Len(AsyncStorage[SEMESTERS_KEY])}
            THEN <<>>
            ELSE JSONparseArray(AsyncStorage[SEMESTERS_KEY][1])

C21_Witness ==
    /\ call.op = "loadData"
    /\ Len(AsyncStorage[STORAGE_KEY]) = 2
    /\ DOMAIN AsyncStorage[STORAGE_KEY][1] # {}
    /\ loadData(AsyncStorage) = EmptyObject
    /\ AsyncStorage = pre

(* C22: round trip: for every persisted state, saveData(loadData()) with no
   change in between leaves the store such that loadData returns the same
   parsed structure as before. *)
C22_SaveOfLoadedIsRoundTrip ==
    call.op = "saveData(loadData())" => loadData(AsyncStorage) = loadData(pre)

C22_Witness ==
    /\ call.op = "saveData(loadData())"
    /\ \E s \in SemesterNames, x \in SubjectNames :
          /\ HasTasks(getSemesterData(pre, s), x)
          /\ Len(getSemesterData(pre, s)[x].tasks) > 0
          /\ getSemesterData(AsyncStorage, s)[x].tasks[1] \in Tasks
    /\ loadData(AsyncStorage) = loadData(pre)

(* ----------------- subject and task calls that are not awaited -------- *)

MaxCalls == 2

(* What a subject or task call does with the semester record that
   getSemesterData returned: it goes on to saveSemesterData with the changed
   record, or it returns or throws without saving. *)
Saves(semesterData) == [save |-> TRUE, raised |-> NoError, semesterData |-> semesterData]

Returns(err) == [save |-> FALSE, raised |-> err, semesterData |-> EmptyObject]

Changed(c, semesterData) ==
    CASE c.op = "addSubject" ->
           IF ~Has(semesterData, c.subject)
             THEN Saves(Put(semesterData, c.subject, NewSubject(c.colorTag)))
             ELSE Returns(NoError)
      [] c.op = "deleteSubject" -> Saves(Delete(semesterData, c.subject))
      [] c.op = "updateSubject" ->
           IF c.subject # c.newName
             THEN IF Has(semesterData, c.newName)
                    THEN Returns(SubjectExists)
                    ELSE Saves(Delete(Put(semesterData, c.newName,
                                          Spread(Get(semesterData, c.subject), c.colorTag)),
                                      c.subject))
             ELSE IF ~Has(semesterData, c.subject)
                    THEN Returns(TypeError)
                    ELSE Saves(Put(semesterData, c.subject,
                                   Put(semesterData[c.subject], "colorTag", c.colorTag)))
      [] c.op = "addTask" ->
           LET withSubject == IF ~Has(semesterData, c.subject)
                                THEN Put(semesterData, c.subject, NewSubject(DefaultColorTag))
                                ELSE semesterData
               record      == withSubject[c.subject]
           IN  IF ~Has(record, "tasks")
                 THEN Returns(TypeError)
                 ELSE Saves(Put(withSubject, c.subject,
                                Put(record, "tasks", Append(record.tasks, c.task))))
      [] c.op \in {"updateTask", "deleteTask", "toggleTaskCompletion"} ->
           IF ~Has(semesterData, c.subject)
             THEN Returns(NoError)
             ELSE LET record == semesterData[c.subject]
                  IN  IF ~Has(record, "tasks")
                        THEN Returns(TypeError)
                        ELSE IF c.op = "deleteTask"
                          THEN Saves(Put(semesterData, c.subject,
                                         Put(record, "tasks", splice(record.tasks, c.taskIndex))))
                        ELSE IF ~At(record.tasks, c.taskIndex)
                          THEN Returns(NoError)
                        ELSE IF c.op = "updateTask"
                          THEN Saves(Put(semesterData, c.subject,
                                         Put(record, "tasks",
                                             [record.tasks EXCEPT ![c.taskIndex + 1] = c.task])))
                          ELSE Saves(Put(semesterData, c.subject,
                                         Put(record, "tasks",
                                             [record.tasks EXCEPT
                                                ![c.taskIndex + 1].completed = ~@])))

(* A subject or task call that was made: the call, the await it is at
   ("saved", "returned" and "threw" once it is over: after its saveData,
   without saving, with an exception), the changed semester record it
   holds, the document saveSemesterData read, and whether another call was
   in flight while it was. *)
SubjectCall(c, pc, semesterData, data, overlapped) ==
    [call |-> c, pc |-> pc, semesterData |-> semesterData, data |-> data,
     overlapped |-> overlapped]

InFlight(c) == c.pc \notin {"saved", "returned", "threw"}

SubjectAndTaskArguments ==
    {Call("addSubject", s, x, "", c, 0, NoTask) :
        s \in SemesterNames, x \in SubjectNames, c \in ColorTags}
    \cup {Call("deleteSubject", s, x, "", "", 0, NoTask) :
        s \in SemesterNames, x \in SubjectNames}
    \cup {Call("updateSubject", s, o, n, c, 0, NoTask) :
        s \in SemesterNames, o \in SubjectNames, n \in SubjectNames, c \in ColorTags}
    \cup {Call("addTask", s, x, "", "", 0, t) :
        s \in SemesterNames, x \in SubjectNames, t \in Tasks}
    \cup {Call("updateTask", s, x, "", "", i, t) :
        s \in SemesterNames, x \in SubjectNames, i \in TaskIndexes, t \in Tasks}
    \cup {Call(op, s, x, "", "", i, NoTask) :
        op \in {"deleteTask", "toggleTaskCompletion"},
        s \in SemesterNames, x \in SubjectNames, i \in TaskIndexes}

(* The call is made: it runs up to its first await, the loadData of
   getSemesterData. *)
StartSubjectCall ==
    \E c \in SubjectAndTaskArguments :
        LET busy == \E i \in 1..Len(inflight) : InFlight(inflight[i])
        IN  /\ ops < MaxCalls
            /\ inflight' = Append([i \in 1..Len(inflight) |->
                                      IF InFlight(inflight[i])
                                        THEN [inflight[i] EXCEPT !.overlapped = TRUE]
                                        ELSE inflight[i]],
                                  SubjectCall(c, "getSemesterData", EmptyObject, EmptyObject,
                                              busy))
            /\ ops' = ops + 1
            /\ UNCHANGED <<AsyncStorage, call, raised, pre, ui>>

(* await getSemesterData(semester) completes and the call changes the record
   it got, up to the await of loadData in saveSemesterData. *)
GetSemesterDataStep ==
    \E i \in 1..Len(inflight) :
        /\ inflight[i].pc = "getSemesterData"
        /\ LET r == Changed(inflight[i].call,
                            getSemesterData(AsyncStorage, inflight[i].call.semester))
           IN  inflight' = [inflight EXCEPT
                   ![i].pc = IF r.save THEN "loadData"
                             ELSE IF r.raised = NoError THEN "returned" ELSE "threw",
                   ![i].semesterData = r.semesterData]
        /\ UNCHANGED <<AsyncStorage, call, raised, pre, ops, ui>>

(* await loadData() of saveSemesterData completes. *)
SaveSemesterDataLoadStep ==
    \E i \in 1..Len(inflight) :
        /\ inflight[i].pc = "loadData"
        /\ inflight' = [inflight EXCEPT ![i].pc = "saveData",
                                        ![i].data = loadData(AsyncStorage)]
        /\ UNCHANGED <<AsyncStorage, call, raised, pre, ops, ui>>

(* data[semester] = semesterData; await saveData(data) completes and the
   call returns. *)
SaveSemesterDataSaveStep ==
    \E i \in 1..Len(inflight) :
        /\ inflight[i].pc = "saveData"
        /\ AsyncStorage' = saveData(AsyncStorage,
                               Put(inflight[i].data, inflight[i].call.semester,
                                   inflight[i].semesterData))
        /\ inflight' = [inflight EXCEPT ![i].pc = "saved"]
        /\ call' = inflight[i].call
        /\ pre' = AsyncStorage
        /\ raised' = NoError
        /\ UNCHANGED <<ops, ui>>

NextSubjects ==
    \/ StartSubjectCall
    \/ GetSemesterDataStep
    \/ SaveSemesterDataLoadStep
    \/ SaveSemesterDataSaveStep

SpecSubjects == Init /\ [][NextSubjects]_vars

(* C23: each subject or task call is one read-modify-write: under every
   interleaving of the calls' reads and writes, the document a call writes
   differs from the document it most recently read only by the call's own
   change, the semester record written being derived from the same snapshot
   as the rest of the document. *)
C23_WritesOneChangeToWhatWasRead ==
    \A i \in 1..Len(inflight) :
        inflight[i].pc = "saveData"
          => LET c == inflight[i]
                 r == Changed(c.call, Get(c.data, c.call.semester))
             IN  /\ r.save
                 /\ c.semesterData = r.semesterData

(* C24: two subject or task calls on different semesters that are in flight
   at the same time do not lose an update: once both have completed, the
   persisted document holds the record each of them saved. *)
C24_NoLostUpdateAcrossSemesters ==
    (/\ Len(inflight) = 2
     /\ \A i \in 1..2 : inflight[i].pc \in {"saved", "returned"} /\ inflight[i].overlapped
     /\ inflight[1].call.semester # inflight[2].call.semester)
      => \A i \in 1..2 :
            inflight[i].pc = "saved"
              => getSemesterData(AsyncStorage, inflight[i].call.semester)
                   = inflight[i].semesterData

(* ------------------------------ the screens --------------------------- *)

MaxTaps == 5

(* The store call c made on the storage st. *)
Apply(c, st) ==
    CASE c.op = "addSemester" -> addSemester(st, c.semester)
      [] c.op = "deleteSemester" -> deleteSemester(st, c.semester)
      [] c.op = "updateSemester" -> updateSemester(st, c.semester, c.newName)
      [] c.op = "addSubject" -> addSubject(st, c.semester, c.subject, c.colorTag)
      [] c.op = "deleteSubject" -> deleteSubject(st, c.semester, c.subject)
      [] c.op = "updateSubject" ->
           updateSubject(st, c.semester, c.subject, c.newName, c.colorTag)
      [] c.op = "deleteTask" -> deleteTask(st, c.semester, c.subject, c.taskIndex)
      [] c.op = "toggleTaskCompletion" ->
           toggleTaskCompletion(st, c.semester, c.subject, c.taskIndex)

(* What a previous session left in the store: nothing, or two semesters of
   which the first has two subjects and a task. *)
StoresAtStart ==
    {NothingStored,
     addTask(addSubject(addSubject(addSemester(addSemester(NothingStored, "S1").st, "S2").st,
                                   "S1", "Math", "#111111").st,
                        "S1", "Phys", "#222222").st,
             "S1", "Math", CHOOSE t \in Tasks : ~t.completed).st}

(* An async function of a screen that is suspended: a handler at its await
   of the store call ("store call"), or loadSemestersData / loadSubjects /
   loadTasks at its await of the read ("reload"), started by the handler
   after its store call or by useFocusEffect.  screen and id say which
   mounted component's state it sets; call holds the store call, or the
   route (semester, subject) that the reload reads. *)
Handler(pc, handler, screen, id, c) ==
    [pc |-> pc, handler |-> handler, screen |-> screen, id |-> id, call |-> c]

Mounted(h) == ui.mounted[h.screen] = h.id

(* The user does something on the focused screen. *)
Tap(newUi, newInflight) ==
    /\ ops < MaxTaps
    /\ ops' = ops + 1
    /\ ui' = newUi
    /\ inflight' = newInflight
    /\ UNCHANGED <<AsyncStorage, call, raised, pre>>

(* SemesterScreen *)

OpenAddSemesterDialog ==
    /\ ui.focused = "Semesters"
    /\ ~ui.Semesters.dialogVisible
    /\ Tap([ui EXCEPT !.Semesters.editingSemester = "", !.Semesters.semesterName = "",
                      !.Semesters.dialogVisible = TRUE], inflight)

OpenEditSemesterDialog ==
    \E i \in 1..Len(ui.Semesters.semesters) :
        /\ ui.focused = "Semesters"
        /\ ~ui.Semesters.dialogVisible
        /\ Tap([ui EXCEPT !.Semesters.editingSemester = ui.Semesters.semesters[i],
                          !.Semesters.semesterName = ui.Semesters.semesters[i],
                          !.Semesters.dialogVisible = TRUE], inflight)

TypeSemesterName ==
    \E n \in SemesterNames :
        /\ ui.focused = "Semesters"
        /\ ui.Semesters.dialogVisible
        /\ n # ui.Semesters.semesterName
        /\ Tap([ui EXCEPT !.Semesters.semesterName = n], inflight)

CancelSemesterDialog ==
    /\ ui.focused = "Semesters"
    /\ ui.Semesters.dialogVisible
    /\ Tap([ui EXCEPT !.Semesters.dialogVisible = FALSE], inflight)

(* The dialog's button with editingSemester null: handleAddSemester up to
   its await. *)
handleAddSemester ==
    /\ ui.focused = "Semesters"
    /\ ui.Semesters.dialogVisible
    /\ ui.Semesters.editingSemester = ""
    /\ Tap(ui, IF ui.Semesters.semesterName # ""
                 THEN Append(inflight,
                          Handler("store call", "handleAddSemester", "Semesters",
                                  ui.mounted["Semesters"],
                                  Call("addSemester", ui.Semesters.semesterName, "", "", "", 0,
                                       NoTask)))
                 ELSE inflight)

(* The dialog's button with editingSemester set: handleEditSemester up to
   its await. *)
handleEditSemester ==
    /\ ui.focused = "Semesters"
    /\ ui.Semesters.dialogVisible
    /\ ui.Semesters.editingSemester # ""
    /\ Tap(ui, IF ui.Semesters.semesterName # ""
                 THEN Append(inflight,
                          Handler("store call", "handleEditSemester", "Semesters",
                                  ui.mounted["Semesters"],
                                  Call("updateSemester", ui.Semesters.editingSemester, "",
                                       ui.Semesters.semesterName, "", 0, NoTask)))
                 ELSE inflight)

(* The delete icon of a listed semester: handleDeleteSemester up to its
   await. *)
handleDeleteSemester ==
    \E i \in 1..Len(ui.Semesters.semesters) :
        /\ ui.focused = "Semesters"
        /\ ~ui.Semesters.dialogVisible
        /\ Tap(ui, Append(inflight,
                       Handler("store call", "handleDeleteSemester", "Semesters",
                               ui.mounted["Semesters"],
                               Call("deleteSemester", ui.Semesters.semesters[i], "", "", "", 0,
                                    NoTask))))

(* The card of a listed semester: navigation.navigate('Subjects'), and the
   new screen's useFocusEffect starts loadSubjects. *)
OpenSemester ==
    \E i \in 1..Len(ui.Semesters.semesters) :
        /\ ui.focused = "Semesters"
        /\ ~ui.Semesters.dialogVisible
        /\ Tap([ui EXCEPT !.focused = "Subjects", !.semester = ui.Semesters.semesters[i],
                          !.pushes = @ + 1, !.mounted["Subjects"] = ui.pushes + 1,
                          !.Subjects = SubjectScreenState],
               Append(inflight,
                   Handler("reload", "useFocusEffect", "Subjects", ui.pushes + 1,
                           Call("getSemesterData", ui.Semesters.semesters[i], "", "", "", 0,
                                NoTask))))

(* SubjectScreen *)

(* loadSubjects: Object.entries(data).map(...) with the defaults for a
   record without tasks or colorTag. *)
DisplayedSubjects(data) ==
    [x \in DOMAIN data |->
        [name |-> x,
         tasks |-> IF Has(data[x], "tasks") THEN data[x].tasks ELSE <<>>,
         colorTag |-> IF Has(data[x], "colorTag") THEN data[x].colorTag ELSE DefaultColorTag]]

OpenAddSubjectDialog ==
    /\ ui.focused = "Subjects"
    /\ ~ui.Subjects.dialogVisible
    /\ Tap([ui EXCEPT !.Subjects.editingSubject = "", !.Subjects.subjectName = "",
                      !.Subjects.colorTag = DefaultColorTag,
                      !.Subjects.dialogVisible = TRUE], inflight)

OpenEditSubjectDialog ==
    \E x \in DOMAIN ui.Subjects.subjects :
        /\ ui.focused = "Subjects"
        /\ ~ui.Subjects.dialogVisible
        /\ Tap([ui EXCEPT !.Subjects.editingSubject = x, !.Subjects.subjectName = x,
                          !.Subjects.colorTag = ui.Subjects.subjects[x].colorTag,
                          !.Subjects.dialogVisible = TRUE], inflight)

TypeSubjectName ==
    \E n \in SubjectNames :
        /\ ui.focused = "Subjects"
        /\ ui.Subjects.dialogVisible
        /\ n # ui.Subjects.subjectName
        /\ Tap([ui EXCEPT !.Subjects.subjectName = n], inflight)

CancelSubjectDialog ==
    /\ ui.focused = "Subjects"
    /\ ui.Subjects.dialogVisible
    /\ Tap([ui EXCEPT !.Subjects.dialogVisible = FALSE], inflight)

handleAddSubject ==
    /\ ui.focused = "Subjects"
    /\ ui.Subjects.dialogVisible
    /\ ui.Subjects.editingSubject = ""
    /\ Tap(ui, IF ui.Subjects.subjectName # ""
                 THEN Append(inflight,
                          Handler("store call", "handleAddSubject", "Subjects",
                                  ui.mounted["Subjects"],
                                  Call("addSubject", ui.semester, ui.Subjects.subjectName, "",
                                       ui.Subjects.colorTag, 0, NoTask)))
                 ELSE inflight)

handleEditSubject ==
    /\ ui.focused = "Subjects"
    /\ ui.Subjects.dialogVisible
    /\ ui.Subjects.editingSubject # ""
    /\ Tap(ui, IF ui.Subjects.subjectName # ""
                 THEN Append(inflight,
                          Handler("store call", "handleEditSubject", "Subjects",
                                  ui.mounted["Subjects"],
                                  Call("updateSubject", ui.semester, ui.Subjects.editingSubject,
                                       ui.Subjects.subjectName, ui.Subjects.colorTag, 0,
                                       NoTask)))
                 ELSE inflight)

handleDeleteSubject ==
    \E x \in DOMAIN ui.Subjects.subjects :
        /\ ui.focused = "Subjects"
        /\ ~ui.Subjects.dialogVisible
        /\ Tap(ui, Append(inflight,
                       Handler("store call", "handleDeleteSubject", "Subjects",
                               ui.mounted["Subjects"],
                               Call("deleteSubject", ui.semester, x, "", "", 0, NoTask))))

(* A subject's task area: navigation.navigate('Tasks'), and the new screen's
   useFocusEffect starts loadTasks. *)
OpenSubject ==
    \E x \in DOMAIN ui.Subjects.subjects :
        /\ ui.focused = "Subjects"
        /\ ~ui.Subjects.dialogVisible
        /\ Tap([ui EXCEPT !.focused = "Tasks", !.subject = x, !.pushes = @ + 1,
                          !.mounted["Tasks"] = ui.pushes + 1, !.Tasks = TaskScreenState],
               Append(inflight,
                   Handler("reload", "useFocusEffect", "Tasks", ui.pushes + 1,
                           Call("getSemesterData", ui.semester, x, "", "", 0, NoTask))))

(* Back: SubjectScreen is unmounted and SemesterScreen's useFocusEffect
   starts loadSemestersData. *)
GoBackToSemesters ==
    /\ ui.focused = "Subjects"
    /\ ~ui.Subjects.dialogVisible
    /\ Tap([ui EXCEPT !.focused = "Semesters", !.semester = "",
                      !.mounted["Subjects"] = 0, !.Subjects = SubjectScreenState],
           Append(inflight,
               Handler("reload", "useFocusEffect", "Semesters", ui.mounted["Semesters"],
                       Call("loadSemesters", "", "", "", "", 0, NoTask))))

(* TaskScreen *)

(* The checkbox of a listed task: handleToggleTask up to its await. *)
handleToggleTask ==
    \E index \in 0..(Len(ui.Tasks.tasks) - 1) :
        /\ ui.focused = "Tasks"
        /\ Tap(ui, Append(inflight,
                       Handler("store call", "handleToggleTask", "Tasks", ui.mounted["Tasks"],
                               Call("toggleTaskCompletion", ui.semester, ui.subject, "", "",
                                    index, NoTask))))

(* The delete icon of a listed task: handleDeleteTask up to its await. *)
handleDeleteTask ==
    \E index \in 0..(Len(ui.Tasks.tasks) - 1) :
        /\ ui.focused = "Tasks"
        /\ Tap(ui, Append(inflight,
                       Handler("store call", "handleDeleteTask", "Tasks", ui.mounted["Tasks"],
                               Call("deleteTask", ui.semester, ui.subject, "", "", index,
                                    NoTask))))

(* Back: TaskScreen is unmounted and SubjectScreen's useFocusEffect starts
   loadSubjects. *)
GoBackToSubjects ==
    /\ ui.focused = "Tasks"
    /\ Tap([ui EXCEPT !.focused = "Subjects", !.subject = "",
                      !.mounted["Tasks"] = 0, !.Tasks = TaskScreenState],
           Append(inflight,
               Handler("reload", "useFocusEffect", "Subjects", ui.mounted["Subjects"],
                       Call("getSemesterData", ui.semester, "", "", "", 0, NoTask))))

(* The snackbar of the focused screen is dismissed (its action, or its
   duration running out). *)
DismissSnackbar ==
    /\ ui.focused \in {"Semesters", "Subjects"}
    /\ ui[ui.focused].snackbarVisible
    /\ Tap([ui EXCEPT ![ui.focused].snackbarVisible = FALSE], inflight)

(* The rest of a handler after its await returned: the fields are reset,
   the dialog is closed (the reload it then starts is in StoreCallCompletes). *)
AfterAwait(handler, state) ==
    CASE handler = "handleAddSemester" ->
           [state EXCEPT !.semesterName = "", !.dialogVisible = FALSE]
      [] handler = "handleEditSemester" ->
           [state EXCEPT !.semesterName = "", !.editingSemester = "", !.dialogVisible = FALSE]
      [] handler = "handleAddSubject" ->
           [state EXCEPT !.subjectName = "", !.colorTag = DefaultColorTag,
                         !.dialogVisible = FALSE]
      [] handler = "handleEditSubject" ->
           [state EXCEPT !.subjectName = "", !.colorTag = DefaultColorTag,
                         !.editingSubject = "", !.dialogVisible = FALSE]
      [] OTHER -> state

(* The catch that also closes the dialog. *)
Caught_ClosesDialog(state, message) ==
    [state EXCEPT !.snackbarMessage = message, !.snackbarVisible = TRUE,
                  !.dialogVisible = FALSE]

(* catch (error) { setSnackbarMessage(error.message); setSnackbarVisible(true) } *)
Caught(state, message) ==
    [state EXCEPT !.snackbarMessage = message, !.snackbarVisible = TRUE]

(* The store call a handler awaits completes.  When it returned, the handler
   resets its fields and starts the reload; when it threw, handleEditSemester
   and handleEditSubject catch and show the snackbar, the other handlers end
   with the rejection.  Setting the state of a component that is no longer
   mounted does nothing. *)
StoreCallCompletes ==
    \E i \in 1..Len(inflight) :
        /\ inflight[i].pc = "store call"
        /\ LET h   == inflight[i]
               out == Apply(h.call, AsyncStorage)
           IN  /\ AsyncStorage' = out.st
               /\ ui' = IF ~Mounted(h) THEN ui
                        ELSE IF out.raised = NoError
                          THEN [ui EXCEPT ![h.screen] = AfterAwait(h.handler, @)]
                        ELSE IF h.handler \in {"handleEditSemester", "handleEditSubject"}
                          THEN [ui EXCEPT ![h.screen] = Caught(@, out.raised)]
                        ELSE ui
               /\ inflight' = IF out.raised = NoError
                                THEN [inflight EXCEPT ![i].pc = "reload"]
                                ELSE Without(inflight, i)
        /\ UNCHANGED <<call, raised, pre, ops>>

(* loadSemestersData, loadSubjects or loadTasks gets what it read and sets
   the list (loadTasks only when the subject has a record). *)
ReloadCompletes ==
    \E i \in 1..Len(inflight) :
        /\ inflight[i].pc = "reload"
        /\ LET h    == inflight[i]
               data == getSemesterData(AsyncStorage, h.call.semester)
           IN  ui' = IF ~Mounted(h) THEN ui
                     ELSE IF h.screen = "Semesters"
                       THEN [ui EXCEPT !.Semesters.semesters = loadSemesters(AsyncStorage)]
                     ELSE IF h.screen = "Subjects"
                       THEN [ui EXCEPT !.Subjects.subjects = DisplayedSubjects(data)]
                     ELSE IF Has(data, h.call.subject)
                       THEN [ui EXCEPT !.Tasks.tasks =
                                IF Has(data[h.call.subject], "tasks")
                                  THEN data[h.call.subject].tasks ELSE <<>>]
                     ELSE ui
        /\ inflight' = Without(inflight, i)
        /\ UNCHANGED <<AsyncStorage, call, raised, pre, ops>>

(* The app starts on SemesterScreen, whose useFocusEffect has started
   loadSemestersData. *)
InitScreens ==
    /\ AsyncStorage \in StoresAtStart
    /\ call = Call("init", "", "", "", "", 0, NoTask)
    /\ raised = NoError
    /\ pre = NothingStored
    /\ ops = 0
    /\ ui = AppStarted
    /\ inflight = <<Handler("reload", "useFocusEffect", "Semesters", 1,
                            Call("loadSemesters", "", "", "", "", 0, NoTask))>>

NextScreens ==
    \/ OpenAddSemesterDialog
    \/ OpenEditSemesterDialog
    \/ TypeSemesterName
    \/ CancelSemesterDialog
    \/ handleAddSemester
    \/ handleEditSemester
    \/ handleDeleteSemester
    \/ OpenSemester
    \/ OpenAddSubjectDialog
    \/ OpenEditSubjectDialog
    \/ TypeSubjectName
    \/ CancelSubjectDialog
    \/ handleAddSubject
    \/ handleEditSubject
    \/ handleDeleteSubject
    \/ OpenSubject
    \/ GoBackToSemesters
    \/ handleToggleTask
    \/ handleDeleteTask
    \/ GoBackToSubjects
    \/ DismissSnackbar
    \/ StoreCallCompletes
    \/ ReloadCompletes

SpecScreens == InitScreens /\ [][NextScreens]_vars

(* C25: the screens keep the store's calls sequential: never two store
   mutations in flight at once, a second one being issued only after the
   previous one has completed and the list has been read again, whatever the
   user taps and however fast. *)
C25_OneMutationAtATime ==
    \A i \in 1..Len(inflight) :
        inflight[i].pc = "store call"
          => \A j \in 1..Len(inflight) :
                j # i => /\ inflight[j].pc # "store call"
                         /\ inflight[j].handler = "useFocusEffect"

(* C26: no screen shows stale data once activity has settled: with no store
   call and no reload in flight, the list of the focused screen is the
   persisted state (the index on SemesterScreen, the semester's record on
   SubjectScreen, the subject's tasks, or none when the subject has no
   record, on TaskScreen). *)
C26_SettledScreenShowsStore ==
    inflight = <<>>
      => CASE ui.focused = "Semesters" ->
                ui.Semesters.semesters = loadSemesters(AsyncStorage)
           [] ui.focused = "Subjects" ->
                ui.Subjects.subjects
                  = DisplayedSubjects(getSemesterData(AsyncStorage, ui.semester))
           [] ui.focused = "Tasks" ->
                ui.Tasks.tasks
                  = IF HasTasks(getSemesterData(AsyncStorage, ui.semester), ui.subject)
                      THEN getSemesterData(AsyncStorage, ui.semester)[ui.subject].tasks
                      ELSE <<>>

(* C27: when a rename fails with the duplicate-name error, the snackbar of
   the screen becomes visible with the error's message and nothing else
   changes: the displayed list, the edit dialog (still open on the same
   item) and the persisted store are as they were. *)
C27_FailedRenameShowsSnackbarOnly ==
    [][\A i \in 1..Len(inflight) :
          (/\ inflight[i].pc = "store call"
           /\ inflight[i].call.op \in {"updateSemester", "updateSubject"}
           /\ Apply(inflight[i].call, AsyncStorage).raised \in {SemesterExists, SubjectExists}
           /\ Mounted(inflight[i])
           /\ inflight' = Without(inflight, i))
            => /\ AsyncStorage' = AsyncStorage
               /\ ui' = [ui EXCEPT
                    ![inflight[i].screen].snackbarVisible = TRUE,
                    ![inflight[i].screen].snackbarMessage =
                        IF inflight[i].call.op = "updateSemester"
                          THEN SemesterExists ELSE SubjectExists]]_vars

C27_Witness ==
    /\ ui.focused = "Semesters"
    /\ ui.Semesters.snackbarVisible
    /\ ui.Semesters.snackbarMessage = SemesterExists
    /\ ui.Semesters.dialogVisible
    /\ ui.Semesters.editingSemester \in SemesterNames
    /\ ui.Semesters.semesterName # ui.Semesters.editingSemester
    /\ includes(ui.Semesters.semesters, ui.Semesters.semesterName)
    /\ includes(loadSemesters(AsyncStorage), ui.Semesters.editingSemester)

====
